---- MODULE Spec2Model ----
(***************************************************************************)
(* Model of pyregex-utils/src/regexutils.py (the interval-overlap         *)
(* predicate, the range- and pattern-scoped find operations and the        *)
(* range-scoped replace operations) and of zip-utils/src/zipdiff.py and    *)
(* zip-utils/src/zipwalk.py.                                               *)
(*                                                                         *)
(* Subject strings are sequences of characters.  Offsets are 0-based and   *)
(* spans are pairs <<start, end>> as returned by re.Match.span().          *)
(* A regular expression is a pair <<kind, w>>:                             *)
(*   <<"lit", w>>       the literal w            ('a', 'ab')               *)
(*   <<"plus", <<c>>>>  one or more c, greedy    ('a+')                    *)
(*   <<"star", <<c>>>>  zero or more c, greedy   ('b*', matches empty)     *)
(* One behaviour is one call: Init draws the arguments, the action of the  *)
(* operation stores its return value in result.                            *)
(*   Spec            one call of the predicate or of a find operation      *)
(*   SpecReplace     one call of a replace operation                       *)
(*   SpecErrors      one call whose patterns may be invalid                *)
(*   SpecConcurrent  two calls of replace_with_excluded_ranges, their      *)
(*                   callbacks interleaved                                 *)
(*   SpecZip         one call of a zipdiff.py function on two archives     *)
(*   SpecWalk        one call of a zipwalk.py function on one archive, the *)
(*                   generator of zip_tree advancing step by step          *)
(***************************************************************************)
EXTENDS Integers, Sequences, FiniteSets, TLC

VARIABLES op, string, pattern, ranges, patterns, count, args, result,
          replacement, calls, replaced_cells, zip1, zip2, path, tree

vars == <<op, string, pattern, ranges, patterns, count, args, result,
          replacement, calls, replaced_cells, zip1, zip2, path, tree>>

(* ------------------------------ bounds -------------------------------- *)

\* longest subject string
MaxLen == 3
\* longest list of ranges
MaxRanges == 2
\* longest list of inclusion or exclusion patterns
MaxPatterns == 2
\* largest match budget (count); 0 is "unbounded"
MaxCount == 2

Alphabet == {"a", "b"}

RECURSIVE ListsOfLen(_, _)
ListsOfLen(S, n) ==
    IF n = 0 THEN {<<>>}
    ELSE {Append(l, x) : l \in ListsOfLen(S, n - 1), x \in S}

ListsUpTo(S, n) == UNION {ListsOfLen(S, k) : k \in 0..n}

Strings == ListsUpTo(Alphabet, MaxLen)

\* 'a', 'ab', 'a+', 'b*'
Regexes ==
    {<<"lit", <<"a">>>>, <<"lit", <<"a", "b">>>>, <<"plus", <<"a">>>>,
     <<"star", <<"b">>>>}

\* offsets a caller puts in a range: the start of the subject, an offset
\* inside it and one at or past its end.  All pairs are drawn, so a list
\* holds proper, zero-length (start = end) and malformed (start > end)
\* ranges, in any order.
RangeEnds == {0, 1, 3}

Ranges == RangeEnds \X RangeEnds

RangeLists == ListsUpTo(Ranges, MaxRanges)

PatternLists == ListsUpTo(Regexes, MaxPatterns)

\* replacement strings: '' (shorter than any non-empty match) and 'b'
Replacements == {<<>>, <<"b">>}

\* arguments of the overlap predicate
Ints == (-1)..(MaxLen + 1)

None == <<"none">>

Min(a, b) == IF a <= b THEN a ELSE b

RECURSIVE Flatten(_)
Flatten(seqs) == IF seqs = <<>> THEN <<>> ELSE Head(seqs) \o Flatten(Tail(seqs))

(* --------------------------- overlap predicate ------------------------ *)

\* the inclusive variant: ranges touching at an endpoint overlap
do_ranges_overlap_inclusive(start1, end1, start2, end2) ==
    start1 <= end2 /\ start2 <= end1

do_ranges_overlap(start1, end1, start2, end2) ==
    start1 <= end2 - 1 /\ start2 <= end1 - 1

(* ------------------------------ regex engine -------------------------- *)

\* string[start:end]
Slice(s, start, end) == SubSeq(s, start + 1, end)

\* length of the run of character c in s starting at offset pos
RECURSIVE RunLen(_, _, _)
RunLen(s, pos, c) ==
    IF pos < Len(s) /\ s[pos + 1] = c THEN 1 + RunLen(s, pos + 1, c) ELSE 0

\* end offset of the match of re anchored at pos, or -1; must_advance
\* forbids an empty match at pos
MatchEnd(re, s, pos, must_advance) ==
    LET kind == re[1]
        w    == re[2]
    IN  IF kind = "lit"
        THEN IF /\ pos + Len(w) <= Len(s)
                /\ Slice(s, pos, pos + Len(w)) = w
                /\ ~(must_advance /\ Len(w) = 0)
             THEN pos + Len(w) ELSE -1
        ELSE LET run == RunLen(s, pos, w[1])
             IN  IF kind = "plus"
                 THEN IF run >= 1 THEN pos + run ELSE -1
                 ELSE IF run = 0 /\ must_advance THEN -1 ELSE pos + run

Match(s, start, end) == [span |-> <<start, end>>, group |-> Slice(s, start, end)]

\* the scanner behind re.finditer and re.sub: leftmost matches, resumed at
\* the end of the previous match; after an empty match the next one must
\* advance
RECURSIVE Scan(_, _, _, _)
Scan(re, s, pos, must_advance) ==
    IF pos > Len(s) THEN <<>>
    ELSE LET e == MatchEnd(re, s, pos, must_advance)
         IN  IF e >= 0
             THEN <<Match(s, pos, e)>> \o Scan(re, s, e, e = pos)
             ELSE Scan(re, s, pos + 1, FALSE)

finditer(re, s) == Scan(re, s, 0, FALSE)

(* ------------------------------ range-scoped find ---------------------- *)

\* a str in a result list (match.group(0)), as opposed to a re.Match
Str(text) == [str |-> text]

NoMatches == [matches |-> <<>>, found |-> 0]

\* the inner loop without its break: appends once per overlapping range
RECURSIVE within_ranges_inner_nobreak(_, _, _, _)
within_ranges_inner_nobreak(m, included_ranges, j, acc) ==
    IF j > Len(included_ranges) THEN acc
    ELSE within_ranges_inner_nobreak(m, included_ranges, j + 1,
            IF do_ranges_overlap(m.span[1], m.span[2],
                                 included_ranges[j][1], included_ranges[j][2])
            THEN [matches |-> Append(acc.matches, m), found |-> acc.found + 1]
            ELSE acc)

\* for in_start, in_end in included_ranges:
\*     if overlap: matches.append(match); found += 1; break
RECURSIVE within_ranges_inner(_, _, _, _)
within_ranges_inner(m, included_ranges, j, acc) ==
    IF j > Len(included_ranges) THEN acc
    ELSE IF do_ranges_overlap(m.span[1], m.span[2],
                              included_ranges[j][1], included_ranges[j][2])
         THEN [matches |-> Append(acc.matches, m), found |-> acc.found + 1]
         ELSE within_ranges_inner(m, included_ranges, j + 1, acc)

\* for match in re.finditer(...): if count and found >= count: break; ...
RECURSIVE within_ranges_loop(_, _, _, _, _)
within_ranges_loop(ms, i, included_ranges, cnt, acc) ==
    IF i > Len(ms) THEN acc
    ELSE IF cnt # 0 /\ acc.found >= cnt THEN acc
    ELSE within_ranges_loop(ms, i + 1, included_ranges, cnt,
                            within_ranges_inner(ms[i], included_ranges, 1, acc))

\* the budget taken from the end of the unbounded result: its last cnt
\* matches
find_within_ranges_tail(s, re, included_ranges, cnt) ==
    LET all == within_ranges_loop(finditer(re, s), 1, included_ranges, 0,
                                  NoMatches).matches
    IN  IF cnt = 0 THEN all
        ELSE SubSeq(all, Len(all) - Min(cnt, Len(all)) + 1, Len(all))

find_within_ranges(s, re, included_ranges, cnt) ==
    within_ranges_loop(finditer(re, s), 1, included_ranges, cnt,
                       NoMatches).matches

\* overlap = False
\* for ex_start, ex_end in excluded_ranges:
\*     if overlap(...): overlap = True; break
RECURSIVE overlaps_excluded_ranges(_, _, _)
overlaps_excluded_ranges(m, excluded_ranges, j) ==
    IF j > Len(excluded_ranges) THEN FALSE
    ELSE IF do_ranges_overlap(m.span[1], m.span[2],
                              excluded_ranges[j][1], excluded_ranges[j][2])
         THEN TRUE
         ELSE overlaps_excluded_ranges(m, excluded_ranges, j + 1)

\* the budget counting every scanned match instead of the kept ones
RECURSIVE excluded_ranges_loop_scanned(_, _, _, _, _)
excluded_ranges_loop_scanned(ms, i, excluded_ranges, cnt, acc) ==
    IF i > Len(ms) THEN acc
    ELSE IF cnt # 0 /\ i - 1 >= cnt THEN acc
    ELSE excluded_ranges_loop_scanned(ms, i + 1, excluded_ranges, cnt,
            IF ~overlaps_excluded_ranges(ms[i], excluded_ranges, 1)
            THEN [matches |-> Append(acc.matches, Str(ms[i].group)),
                  found |-> acc.found + 1]
            ELSE acc)

\* if not overlap: matches.append(match.group(0)); found += 1
RECURSIVE excluded_ranges_loop(_, _, _, _, _)
excluded_ranges_loop(ms, i, excluded_ranges, cnt, acc) ==
    IF i > Len(ms) THEN acc
    ELSE IF cnt # 0 /\ acc.found >= cnt THEN acc
    ELSE excluded_ranges_loop(ms, i + 1, excluded_ranges, cnt,
            IF ~overlaps_excluded_ranges(ms[i], excluded_ranges, 1)
            THEN [matches |-> Append(acc.matches, Str(ms[i].group)),
                  found |-> acc.found + 1]
            ELSE acc)

find_with_excluded_ranges(s, re, excluded_ranges, cnt) ==
    excluded_ranges_loop(finditer(re, s), 1, excluded_ranges, cnt,
                         NoMatches).matches

(* ------------------------------ pattern-scoped find -------------------- *)

\* the budget tested after the append instead of before it
RECURSIVE within_patterns_inner_late(_, _, _, _)
within_patterns_inner_late(ms, k, cnt, acc) ==
    IF k > Len(ms) THEN acc
    ELSE LET next == [matches |-> Append(acc.matches, ms[k]),
                      found |-> acc.found + 1]
         IN  IF cnt # 0 /\ next.found >= cnt THEN next
             ELSE within_patterns_inner_late(ms, k + 1, cnt, next)

\* for match in re.finditer(pattern, string[start:end]):
\*     if count and found >= count: break
\*     matches.append(match); found += 1
RECURSIVE within_patterns_inner(_, _, _, _)
within_patterns_inner(ms, k, cnt, acc) ==
    IF k > Len(ms) THEN acc
    ELSE IF cnt # 0 /\ acc.found >= cnt THEN acc
    ELSE within_patterns_inner(ms, k + 1, cnt,
            [matches |-> Append(acc.matches, ms[k]), found |-> acc.found + 1])

\* the target searched in string[start:] instead of string[start:end]
RECURSIVE within_patterns_matches_open(_, _, _, _, _, _)
within_patterns_matches_open(incs, j, s, re, cnt, acc) ==
    IF j > Len(incs) THEN acc
    ELSE within_patterns_matches_open(incs, j + 1, s, re, cnt,
            within_patterns_inner(
                finditer(re, Slice(s, incs[j].span[1], Len(s))),
                1, cnt, acc))

\* for inc_match in re.finditer(inc_pattern, string): start, end = span; ...
RECURSIVE within_patterns_matches(_, _, _, _, _, _)
within_patterns_matches(incs, j, s, re, cnt, acc) ==
    IF j > Len(incs) THEN acc
    ELSE within_patterns_matches(incs, j + 1, s, re, cnt,
            within_patterns_inner(
                finditer(re, Slice(s, incs[j].span[1], incs[j].span[2])),
                1, cnt, acc))

\* for inc_pattern in included_patterns: ...
RECURSIVE within_patterns_loop(_, _, _, _, _, _)
within_patterns_loop(included_patterns, i, s, re, cnt, acc) ==
    IF i > Len(included_patterns) THEN acc
    ELSE within_patterns_loop(included_patterns, i + 1, s, re, cnt,
            within_patterns_matches(finditer(included_patterns[i], s), 1,
                                    s, re, cnt, acc))

find_within_patterns(s, re, included_patterns, cnt) ==
    within_patterns_loop(included_patterns, 1, s, re, cnt, NoMatches).matches

\* excluded_spans assigned anew for each pattern: only the last one counts
RECURSIVE collect_excluded_spans_last(_, _, _, _)
collect_excluded_spans_last(excluded_patterns, i, s, excluded_spans) ==
    IF i > Len(excluded_patterns) THEN excluded_spans
    ELSE LET ms == finditer(excluded_patterns[i], s)
         IN  collect_excluded_spans_last(excluded_patterns, i + 1, s,
                [k \in 1..Len(ms) |-> ms[k].span])

\* excluded_spans = []
\* for ex_pattern in excluded_patterns:
\*     for ex_match in re.finditer(ex_pattern, string): append(ex_match.span())
RECURSIVE collect_excluded_spans(_, _, _, _)
collect_excluded_spans(excluded_patterns, i, s, excluded_spans) ==
    IF i > Len(excluded_patterns) THEN excluded_spans
    ELSE LET ms == finditer(excluded_patterns[i], s)
         IN  collect_excluded_spans(excluded_patterns, i + 1, s,
                excluded_spans \o [k \in 1..Len(ms) |-> ms[k].span])

\* overlap = False
\* for ex_start, ex_end in excluded_spans:
\*     if overlap(...): overlap = True; break
RECURSIVE overlaps_excluded_spans(_, _, _)
overlaps_excluded_spans(m, excluded_spans, j) ==
    IF j > Len(excluded_spans) THEN FALSE
    ELSE IF do_ranges_overlap(m.span[1], m.span[2],
                              excluded_spans[j][1], excluded_spans[j][2])
         THEN TRUE
         ELSE overlaps_excluded_spans(m, excluded_spans, j + 1)

\* if not overlap: matches.append(match); found += 1
RECURSIVE excluded_patterns_loop(_, _, _, _, _)
excluded_patterns_loop(ms, i, excluded_spans, cnt, acc) ==
    IF i > Len(ms) THEN acc
    ELSE IF cnt # 0 /\ acc.found >= cnt THEN acc
    ELSE excluded_patterns_loop(ms, i + 1, excluded_spans, cnt,
            IF ~overlaps_excluded_spans(ms[i], excluded_spans, 1)
            THEN [matches |-> Append(acc.matches, ms[i]),
                  found |-> acc.found + 1]
            ELSE acc)

find_with_excluded_patterns(s, re, excluded_patterns, cnt) ==
    excluded_patterns_loop(finditer(re, s), 1,
                           collect_excluded_spans(excluded_patterns, 1, s, <<>>),
                           cnt, NoMatches).matches

(* ------------------------------ range-scoped replace ------------------- *)

\* the matches re.sub hands to its callback: all of them, or the first
\* count when count is not 0
sub_matches(re, s, cnt) ==
    LET ms == finditer(re, s)
    IN  IF cnt = 0 THEN ms ELSE SubSeq(ms, 1, Min(cnt, Len(ms)))

\* the string re.sub builds: the text before each match, what the callback
\* returned for the match, and the text after the last match
RECURSIVE sub_join(_, _, _, _, _)
sub_join(s, ms, outs, i, pos) ==
    IF i > Len(ms) THEN Slice(s, pos, Len(s))
    ELSE Slice(s, pos, ms[i].span[1]) \o outs[i]
            \o sub_join(s, ms, outs, i + 1, ms[i].span[2])

\* the callback that looks at the first included range only
within_replacement_function_first(m, repl, included_ranges, j) ==
    IF /\ included_ranges # <<>>
       /\ do_ranges_overlap(m.span[1], m.span[2],
                            included_ranges[1][1], included_ranges[1][2])
    THEN repl ELSE m.group

\* for in_start, in_end in included_ranges:
\*     if overlap: return replacement
\* return match.group(0)
RECURSIVE within_replacement_function(_, _, _, _)
within_replacement_function(m, repl, included_ranges, j) ==
    IF j > Len(included_ranges) THEN m.group
    ELSE IF do_ranges_overlap(m.span[1], m.span[2],
                              included_ranges[j][1], included_ranges[j][2])
         THEN repl
         ELSE within_replacement_function(m, repl, included_ranges, j + 1)

\* the string built by the callback results alone: the text of the subject
\* outside the matches is lost
replace_within_ranges_matches_only(s, re, repl, included_ranges, cnt) ==
    LET ms == sub_matches(re, s, cnt)
    IN  Flatten([i \in 1..Len(ms) |->
                    within_replacement_function(ms[i], repl, included_ranges, 1)])

replace_within_ranges(s, re, repl, included_ranges, cnt) ==
    LET ms   == sub_matches(re, s, cnt)
        outs == [i \in 1..Len(ms) |->
                    within_replacement_function(ms[i], repl, included_ranges, 1)]
    IN  sub_join(s, ms, outs, 1, 0)

\* the callback with the budget test after the increment: the budget is
\* never seen as reached
excluded_replacement_function_unbounded(m, repl, excluded_ranges, cnt, replaced) ==
    IF overlaps_excluded_ranges(m, excluded_ranges, 1)
    THEN [out |-> m.group, replaced |-> replaced]
    ELSE [out |-> repl, replaced |-> replaced + 1]

\* one call of the callback: what it returns and the counter it leaves
\*     if count and replaced >= count: return match.group(0)
\*     for ex_start, ex_end in excluded_ranges:
\*         if overlap: return match.group(0)
\*     replaced += 1; return replacement
excluded_replacement_function(m, repl, excluded_ranges, cnt, replaced) ==
    IF cnt # 0 /\ replaced >= cnt
    THEN [out |-> m.group, replaced |-> replaced]
    ELSE IF overlaps_excluded_ranges(m, excluded_ranges, 1)
         THEN [out |-> m.group, replaced |-> replaced]
         ELSE [out |-> repl, replaced |-> replaced + 1]

\* the callbacks of one re.sub, in match order, threading replaced
RECURSIVE excluded_replace_loop(_, _, _, _, _, _, _)
excluded_replace_loop(ms, i, repl, excluded_ranges, cnt, replaced, outs) ==
    IF i > Len(ms) THEN outs
    ELSE LET r == excluded_replacement_function(ms[i], repl, excluded_ranges,
                                                cnt, replaced)
         IN  excluded_replace_loop(ms, i + 1, repl, excluded_ranges, cnt,
                                   r.replaced, Append(outs, r.out))

replace_with_excluded_ranges(s, re, repl, excluded_ranges, cnt) ==
    LET ms == sub_matches(re, s, 0)
    IN  sub_join(s, ms,
                 excluded_replace_loop(ms, 1, repl, excluded_ranges, cnt, 0, <<>>),
                 1, 0)

(* ------------------------------ state machine -------------------------- *)

\* the arguments of one call of the overlap predicate
InitOverlap ==
    /\ args \in Ints \X Ints \X Ints \X Ints
    /\ string = <<>>
    /\ pattern = None
    /\ ranges = <<>>
    /\ patterns = <<>>
    /\ count = 0

\* the arguments of one call of a range-scoped operation
InitRanges ==
    /\ args = <<>>
    /\ string \in Strings
    /\ pattern \in Regexes
    /\ ranges \in RangeLists
    /\ patterns = <<>>
    /\ count \in 0..MaxCount

\* the arguments of one call of a pattern-scoped operation
InitPatterns ==
    /\ args = <<>>
    /\ string \in Strings
    /\ pattern \in Regexes
    /\ ranges = <<>>
    /\ patterns \in PatternLists
    /\ count \in 0..MaxCount

\* no replace operation has been called, no call is in progress and no
\* archive is open
NoReplacement ==
    /\ replacement = <<>>
    /\ calls = <<>>
    /\ replaced_cells = <<>>
    /\ zip1 = <<>>
    /\ zip2 = <<>>
    /\ path = None
    /\ tree = None

\* what a call of a regex operation does not touch
Elsewhere == <<calls, replaced_cells, zip1, zip2, path, tree>>

Init ==
    /\ op = "init"
    /\ result = None
    /\ NoReplacement
    /\ (InitOverlap \/ InitRanges \/ InitPatterns)

Inputs == <<string, pattern, ranges, patterns, count, args>>

RangeCall == op = "init" /\ args = <<>> /\ patterns = <<>>

PatternCall == op = "init" /\ args = <<>> /\ ranges = <<>>

CallOverlap ==
    /\ op = "init"
    /\ args # <<>>
    /\ op' = "_do_ranges_overlap"
    /\ result' = do_ranges_overlap(args[1], args[2], args[3], args[4])
    /\ UNCHANGED <<Inputs, replacement, Elsewhere>>

CallFindWithinRanges ==
    /\ RangeCall
    /\ op' = "find_within_ranges"
    /\ result' = find_within_ranges(string, pattern, ranges, count)
    /\ UNCHANGED <<Inputs, replacement, Elsewhere>>

CallFindWithExcludedRanges ==
    /\ RangeCall
    /\ op' = "find_with_excluded_ranges"
    /\ result' = find_with_excluded_ranges(string, pattern, ranges, count)
    /\ UNCHANGED <<Inputs, replacement, Elsewhere>>

CallFindWithinPatterns ==
    /\ PatternCall
    /\ op' = "find_within_patterns"
    /\ result' = find_within_patterns(string, pattern, patterns, count)
    /\ UNCHANGED <<Inputs, replacement, Elsewhere>>

CallFindWithExcludedPatterns ==
    /\ PatternCall
    /\ op' = "find_with_excluded_patterns"
    /\ result' = find_with_excluded_patterns(string, pattern, patterns, count)
    /\ UNCHANGED <<Inputs, replacement, Elsewhere>>

Next ==
    \/ CallOverlap
    \/ CallFindWithinRanges
    \/ CallFindWithExcludedRanges
    \/ CallFindWithinPatterns
    \/ CallFindWithExcludedPatterns

Spec == Init /\ [][Next]_vars

(* ------------------------ state machine: replace ----------------------- *)

\* the ranges passed to a replace operation: two proper ranges, a
\* zero-length one and a malformed one
ReplaceRanges == {<<0, 1>>, <<1, 3>>, <<0, 0>>, <<3, 1>>}

\* the subject, pattern, ranges and budget of one call of a replace
\* operation; the call draws the replacement
InitReplace ==
    /\ op = "init"
    /\ result = None
    /\ NoReplacement
    /\ args = <<>>
    /\ string \in Strings
    /\ pattern \in Regexes
    /\ ranges \in ListsUpTo(ReplaceRanges, MaxRanges)
    /\ patterns = <<>>
    /\ count \in 0..MaxCount

CallReplaceWithinRanges ==
    /\ RangeCall
    /\ op' = "replace_within_ranges"
    /\ \E repl \in Replacements :
          /\ replacement' = repl
          /\ result' = Str(replace_within_ranges(string, pattern, repl,
                                                 ranges, count))
    /\ UNCHANGED <<Inputs, Elsewhere>>

CallReplaceWithExcludedRanges ==
    /\ RangeCall
    /\ op' = "replace_with_excluded_ranges"
    /\ \E repl \in Replacements :
          /\ replacement' = repl
          /\ result' = Str(replace_with_excluded_ranges(string, pattern, repl,
                                                        ranges, count))
    /\ UNCHANGED <<Inputs, Elsewhere>>

NextReplace ==
    \/ CallReplaceWithinRanges
    \/ CallReplaceWithExcludedRanges

SpecReplace == InitReplace /\ [][NextReplace]_vars

(* ------------------------------ properties ----------------------------- *)

\* the canonical half-open intersection of two spans
SpanOverlaps(a, b) == a[1] < b[2] /\ b[1] < a[2]

OverlapsAny(m, spans) == \E j \in 1..Len(spans) : SpanOverlaps(m.span, spans[j])

Occurrences(seq, v) == Cardinality({k \in 1..Len(seq) : seq[k] = v})

Prefix(seq, n) == SubSeq(seq, 1, Min(n, Len(seq)))

AllMatches == finditer(pattern, string)

MatchesWithin ==
    LET Kept(m) == OverlapsAny(m, ranges) IN SelectSeq(AllMatches, Kept)

MatchesOutside ==
    LET Kept(m) == ~OverlapsAny(m, ranges) IN SelectSeq(AllMatches, Kept)

\* the spans matched in the full subject by the i-th pattern of the list
SpansOf(i) ==
    LET ms == finditer(patterns[i], string) IN [k \in 1..Len(ms) |-> ms[k].span]

MatchesOutsidePatterns ==
    LET Kept(m) == \A i \in 1..Len(patterns) : ~OverlapsAny(m, SpansOf(i))
    IN  SelectSeq(AllMatches, Kept)

\* the matches of the target in the substring bounded by the outer match o
TargetIn(o) == finditer(pattern, Slice(string, o.span[1], o.span[2]))

GroupedWithin ==
    Flatten([i \in 1..Len(patterns) |->
        LET outer == finditer(patterns[i], string)
        IN  Flatten([j \in 1..Len(outer) |-> TargetIn(outer[j])])])

\* C1: _do_ranges_overlap(s1, e1, s2, e2) is true iff s1 < e2 and s2 < e1,
\* so ranges that only touch at an endpoint do not overlap while partial
\* overlap and containment do.
C1_OverlapIsHalfOpen ==
    op = "_do_ranges_overlap" =>
        (result <=> (args[1] < args[4] /\ args[3] < args[2]))

\* two proper ranges touching at an endpoint were found not to overlap
C1_Witness ==
    /\ op = "_do_ranges_overlap"
    /\ args[1] < args[2] /\ args[2] = args[3] /\ args[3] < args[4]
    /\ result = FALSE

\* C2: a zero-length range (start = end) never overlaps anything, whichever
\* of the two arguments it is, and the predicate is symmetric in its ranges.
C2_ZeroLengthNeverOverlaps ==
    op = "_do_ranges_overlap" =>
        /\ (args[1] = args[2] \/ args[3] = args[4]) => result = FALSE
        /\ result = do_ranges_overlap(args[3], args[4], args[1], args[2])

\* C3: with count = 0 find_within_ranges returns, in engine order and each
\* once, exactly the matches whose span overlaps at least one included range.
C3_WithinRangesSelectsOverlapping ==
    (op = "find_within_ranges" /\ count = 0) => result = MatchesWithin

\* two ranges out of order overlap the same returned match, and another
\* match of the pattern is dropped
C3_Witness ==
    /\ op = "find_within_ranges" /\ count = 0
    /\ Len(ranges) = 2 /\ ranges[2][1] < ranges[1][1]
    /\ \E k \in 1..Len(result) :
          /\ result[k].group # <<>>
          /\ SpanOverlaps(result[k].span, ranges[1])
          /\ SpanOverlaps(result[k].span, ranges[2])
    /\ 0 < Len(result) /\ Len(result) < Len(AllMatches)

\* C4: with count = 0 find_with_excluded_ranges returns, in engine order, the
\* match objects (with their spans) of exactly the matches whose span
\* overlaps no excluded range.
C4_ExcludedRangesReturnsMatches ==
    (op = "find_with_excluded_ranges" /\ count = 0) => result = MatchesOutside

\* C5: with no budget the results of find_within_ranges and
\* find_with_excluded_ranges on the same arguments are disjoint and together
\* contain every match of the pattern exactly once, and nothing else.
C5_RangesPartition ==
    (op \in {"find_within_ranges", "find_with_excluded_ranges"} /\ count = 0) =>
        LET within   == IF op = "find_within_ranges" THEN result
                        ELSE find_within_ranges(string, pattern, ranges, 0)
            excluded == IF op = "find_with_excluded_ranges" THEN result
                        ELSE find_with_excluded_ranges(string, pattern, ranges, 0)
        IN  /\ \A i \in 1..Len(AllMatches) :
                  Occurrences(within, AllMatches[i])
                      + Occurrences(excluded, AllMatches[i]) = 1
            /\ \A k \in 1..Len(within) : Occurrences(AllMatches, within[k]) = 1
            /\ \A k \in 1..Len(excluded) :
                  Occurrences(AllMatches, excluded[k]) = 1

\* the number of qualifying matches of the single-scan find operation
Qualifying ==
    CASE op = "find_within_ranges" -> Len(MatchesWithin)
      [] op = "find_with_excluded_ranges" -> Len(MatchesOutside)
      [] op = "find_with_excluded_patterns" -> Len(MatchesOutsidePatterns)

SingleScanFinds ==
    {"find_within_ranges", "find_with_excluded_ranges",
     "find_with_excluded_patterns"}

\* C6: find_within_ranges, find_with_excluded_ranges and
\* find_with_excluded_patterns return min(count, q) results when count > 0
\* and q results when count = 0, q being the number of qualifying matches:
\* matches scanned but not kept consume no budget.
C6_BudgetCountsKeptMatches ==
    op \in SingleScanFinds =>
        Len(result) = IF count > 0 THEN Min(count, Qualifying) ELSE Qualifying

\* the first scanned match is not kept, the budget is reached and cuts off a
\* qualifying match
C6_Witness ==
    /\ op = "find_with_excluded_ranges" /\ count > 0
    /\ AllMatches # <<>> /\ OverlapsAny(AllMatches[1], ranges)
    /\ Len(result) = count /\ Len(MatchesOutside) > count

\* C7: with count = k > 0 find_within_patterns returns exactly the first
\* min(k, q) elements of its unbounded result: once k matches are appended
\* nothing more is appended in the rest of the three nested loops.
C7_WithinPatternsBudgetPrefix ==
    (op = "find_within_patterns" /\ count > 0) =>
        result = Prefix(find_within_patterns(string, pattern, patterns, 0), count)

\* the budget is reached within the first inclusion pattern while the second
\* one still has outer matches holding matches of the target
C7_Witness ==
    /\ op = "find_within_patterns" /\ count > 0 /\ Len(patterns) = 2
    /\ Len(find_within_patterns(string, pattern, <<patterns[1]>>, 0)) >= count
    /\ find_within_patterns(string, pattern, <<patterns[2]>>, 0) # <<>>
    /\ Len(result) = count /\ result[1].group # <<>>

\* C8: with an empty range list find_within_ranges returns no match and
\* find_with_excluded_ranges returns every match of the pattern; with an
\* empty pattern list find_within_patterns returns no match and
\* find_with_excluded_patterns returns every match (subject to the budget).
C8_EmptySelector ==
    /\ (op = "find_within_ranges" /\ ranges = <<>>) => result = <<>>
    /\ (op = "find_within_patterns" /\ patterns = <<>>) => result = <<>>
    /\ (op = "find_with_excluded_ranges" /\ ranges = <<>>) =>
           result = IF count > 0 THEN Prefix(AllMatches, count) ELSE AllMatches
    /\ (op = "find_with_excluded_patterns" /\ patterns = <<>>) =>
           result = IF count > 0 THEN Prefix(AllMatches, count) ELSE AllMatches

\* C9: with count = 0 the result of find_within_patterns is the
\* concatenation, over the inclusion patterns in list order and over each
\* one's matches in the full subject in engine order, of the matches of the
\* target in the substring bounded by that outer match; spans are relative
\* to that substring and nothing is re-sorted or deduplicated.
C9_WithinPatternsGroupedConcatenation ==
    (op = "find_within_patterns" /\ count = 0) =>
        /\ result = GroupedWithin
        /\ \A i \in 1..Len(patterns) :
              LET outer == finditer(patterns[i], string)
              IN  \A j \in 1..Len(outer) : \A k \in 1..Len(TargetIn(outer[j])) :
                      LET o == outer[j].span
                          t == TargetIn(outer[j])[k]
                      IN  /\ 0 <= t.span[1] /\ t.span[1] <= t.span[2]
                          /\ t.span[2] <= o[2] - o[1]
                          /\ t.group = Slice(string, o[1] + t.span[1],
                                             o[1] + t.span[2])

\* two inclusion patterns; a target match is returned twice, and an outer
\* match that does not start the subject holds a match of the target
C9_Witness ==
    /\ op = "find_within_patterns" /\ count = 0 /\ Len(patterns) = 2
    /\ \E k, l \in 1..Len(result) :
          k < l /\ result[k] = result[l] /\ result[k].group # <<>>
    /\ \E i \in 1..2 :
          LET outer == finditer(patterns[i], string)
          IN  \E j \in 1..Len(outer) :
                  outer[j].span[1] > 0 /\ TargetIn(outer[j]) # <<>>

\* C10: with count = 0 find_with_excluded_patterns returns, in engine order
\* and with absolute spans, exactly the matches of the target in the full
\* subject whose span overlaps no span matched in the full subject by any
\* exclusion pattern.
C10_ExcludedPatternsSelectsOutside ==
    (op = "find_with_excluded_patterns" /\ count = 0) =>
        result = MatchesOutsidePatterns

\* one match is excluded by the first pattern only, another by the second
\* only, and a third is returned
C10_Witness ==
    /\ op = "find_with_excluded_patterns" /\ count = 0 /\ Len(patterns) = 2
    /\ \E i \in 1..Len(AllMatches) :
          OverlapsAny(AllMatches[i], SpansOf(1))
              /\ ~OverlapsAny(AllMatches[i], SpansOf(2))
    /\ \E i \in 1..Len(AllMatches) :
          OverlapsAny(AllMatches[i], SpansOf(2))
              /\ ~OverlapsAny(AllMatches[i], SpansOf(1))
    /\ result # <<>>

(* ------------------- state machine: invalid patterns ------------------- *)

\* a pattern the engine cannot compile, such as '('
Invalid == <<"invalid", <<>>>>

\* re.finditer and re.sub compile their pattern when they are called and
\* raise re.error when it is invalid
compiles(re) == re[1] # "invalid"

PatternListsWithInvalid == ListsUpTo(Regexes \cup {Invalid}, MaxPatterns)

\* the outcome of a call: the exception it raised, if any, whether a scan of
\* the subject ran before the exception, and the value it returned
Raised(matched) ==
    [raised |-> "re.error", matched_before_raise |-> matched, returned |-> None]

Returned(value) ==
    [raised |-> "", matched_before_raise |-> FALSE, returned |-> value]

\* the four range-scoped operations start with re.finditer(pattern, ...) or
\* re.sub(pattern, ...)
try_find_within_ranges(s, re, included_ranges, cnt) ==
    IF ~compiles(re) THEN Raised(FALSE)
    ELSE Returned(find_within_ranges(s, re, included_ranges, cnt))

try_find_with_excluded_ranges(s, re, excluded_ranges, cnt) ==
    IF ~compiles(re) THEN Raised(FALSE)
    ELSE Returned(find_with_excluded_ranges(s, re, excluded_ranges, cnt))

try_replace_within_ranges(s, re, repl, included_ranges, cnt) ==
    IF ~compiles(re) THEN Raised(FALSE)
    ELSE Returned(Str(replace_within_ranges(s, re, repl, included_ranges, cnt)))

try_replace_with_excluded_ranges(s, re, repl, excluded_ranges, cnt) ==
    IF ~compiles(re) THEN Raised(FALSE)
    ELSE Returned(Str(replace_with_excluded_ranges(s, re, repl, excluded_ranges, cnt)))

\* for inc_pattern in included_patterns:
\*     for inc_match in re.finditer(inc_pattern, string):
\*         for match in re.finditer(pattern, string[start:end]):
\* an inclusion pattern is compiled when the outer loop reaches it, the
\* target when the first outer match is reached
RECURSIVE try_find_within_patterns_loop(_, _, _, _, _)
try_find_within_patterns_loop(s, re, included_patterns, cnt, i) ==
    IF i > Len(included_patterns)
    THEN Returned(find_within_patterns(s, re, included_patterns, cnt))
    ELSE IF ~compiles(included_patterns[i]) THEN Raised(i > 1)
    ELSE IF finditer(included_patterns[i], s) # <<>> /\ ~compiles(re)
         THEN Raised(TRUE)
         ELSE try_find_within_patterns_loop(s, re, included_patterns, cnt, i + 1)

try_find_within_patterns(s, re, included_patterns, cnt) ==
    try_find_within_patterns_loop(s, re, included_patterns, cnt, 1)

\* for ex_pattern in excluded_patterns:
\*     for ex_match in re.finditer(ex_pattern, string): ...
\* for match in re.finditer(pattern, string): ...
\* the exclusion patterns are compiled and scanned one by one, the target
\* after all of them
RECURSIVE try_find_with_excluded_patterns_loop(_, _, _, _, _)
try_find_with_excluded_patterns_loop(s, re, excluded_patterns, cnt, i) ==
    IF i > Len(excluded_patterns)
    THEN IF ~compiles(re) THEN Raised(i > 1)
         ELSE Returned(find_with_excluded_patterns(s, re, excluded_patterns, cnt))
    ELSE IF ~compiles(excluded_patterns[i]) THEN Raised(i > 1)
         ELSE try_find_with_excluded_patterns_loop(s, re, excluded_patterns,
                                                   cnt, i + 1)

try_find_with_excluded_patterns(s, re, excluded_patterns, cnt) ==
    try_find_with_excluded_patterns_loop(s, re, excluded_patterns, cnt, 1)

\* the arguments of one call, valid or not: a range-scoped call has a short
\* range list, a pattern-scoped call a pattern list
InitErrors ==
    /\ op = "init"
    /\ result = None
    /\ NoReplacement
    /\ args = <<>>
    /\ string \in Strings
    /\ pattern \in Regexes \cup {Invalid}
    /\ count = 0
    /\ \/ ranges \in ListsUpTo(Ranges, 1) /\ patterns = <<>>
       \/ ranges = <<>> /\ patterns \in PatternListsWithInvalid

TryFindWithinRanges ==
    /\ RangeCall
    /\ op' = "find_within_ranges"
    /\ result' = try_find_within_ranges(string, pattern, ranges, count)
    /\ UNCHANGED <<Inputs, replacement, Elsewhere>>

TryFindWithExcludedRanges ==
    /\ RangeCall
    /\ op' = "find_with_excluded_ranges"
    /\ result' = try_find_with_excluded_ranges(string, pattern, ranges, count)
    /\ UNCHANGED <<Inputs, replacement, Elsewhere>>

TryReplaceWithinRanges ==
    /\ RangeCall
    /\ op' = "replace_within_ranges"
    /\ \E repl \in Replacements :
          /\ replacement' = repl
          /\ result' = try_replace_within_ranges(string, pattern, repl,
                                                 ranges, count)
    /\ UNCHANGED <<Inputs, Elsewhere>>

TryReplaceWithExcludedRanges ==
    /\ RangeCall
    /\ op' = "replace_with_excluded_ranges"
    /\ \E repl \in Replacements :
          /\ replacement' = repl
          /\ result' = try_replace_with_excluded_ranges(string, pattern, repl,
                                                        ranges, count)
    /\ UNCHANGED <<Inputs, Elsewhere>>

TryFindWithinPatterns ==
    /\ PatternCall
    /\ op' = "find_within_patterns"
    /\ result' = try_find_within_patterns(string, pattern, patterns, count)
    /\ UNCHANGED <<Inputs, replacement, Elsewhere>>

TryFindWithExcludedPatterns ==
    /\ PatternCall
    /\ op' = "find_with_excluded_patterns"
    /\ result' = try_find_with_excluded_patterns(string, pattern, patterns, count)
    /\ UNCHANGED <<Inputs, replacement, Elsewhere>>

NextErrors ==
    \/ TryFindWithinRanges
    \/ TryFindWithExcludedRanges
    \/ TryReplaceWithinRanges
    \/ TryReplaceWithExcludedRanges
    \/ TryFindWithinPatterns
    \/ TryFindWithExcludedPatterns

SpecErrors == InitErrors /\ [][NextErrors]_vars

(* ------------------- state machine: concurrent calls ------------------- *)

\* two calls
CallIds == {1, 2}

\* the arguments of a concurrent call of replace_with_excluded_ranges: any
\* subject and any positive budget; 'a' is replaced by 'b' outside (0, 1)
ConcurrentArgs ==
    [string : Strings, pattern : {<<"lit", <<"a">>>>}, replacement : {<<"b">>},
     excluded_ranges : {<<<<0, 1>>>>}, count : 1..MaxCount]

\* a call that has run "replaced = 0" and is about to enter re.sub: i is the
\* index of the next match handed to the callback, outs the callback's
\* results so far.  overlapped records that a callback of this call ran
\* while the other call was between its first callback and its return.
Frame(a) ==
    [string |-> a.string, pattern |-> a.pattern, replacement |-> a.replacement,
     excluded_ranges |-> a.excluded_ranges, count |-> a.count,
     i |-> 1, outs |-> <<>>, done |-> FALSE, returned |-> None,
     overlapped |-> FALSE]

\* every call shares one counter
closure_cell_shared(c) == 1

\* the variable that "nonlocal replaced" of call c refers to: the local of
\* the enclosing call
closure_cell(c) == c

InitConcurrent ==
    /\ op = "concurrent"
    /\ result = None
    /\ replacement = <<>> /\ zip1 = <<>> /\ zip2 = <<>>
    /\ path = None /\ tree = None
    /\ args = <<>> /\ string = <<>> /\ pattern = None
    /\ ranges = <<>> /\ patterns = <<>> /\ count = 0
    /\ \E a \in [CallIds -> ConcurrentArgs] :
          calls = [c \in CallIds |-> Frame(a[c])]
    /\ replaced_cells = [c \in CallIds |-> 0]

MatchesOf(f) == sub_matches(f.pattern, f.string, 0)

InProgress(f) == f.i > 1 /\ ~f.done

\* re.sub of call c hands its next match to replacement_function
Callback(c) ==
    LET f  == calls[c]
        ms == MatchesOf(f)
    IN  /\ ~f.done
        /\ f.i <= Len(ms)
        /\ LET r == excluded_replacement_function(
                        ms[f.i], f.replacement, f.excluded_ranges, f.count,
                        replaced_cells[closure_cell(c)])
           IN  /\ replaced_cells' =
                      [replaced_cells EXCEPT ![closure_cell(c)] = r.replaced]
               /\ calls' = [calls EXCEPT ![c] =
                      [f EXCEPT !.i = f.i + 1,
                                !.outs = Append(f.outs, r.out),
                                !.overlapped =
                                    f.overlapped
                                    \/ \E d \in CallIds \ {c} : InProgress(calls[d])]]
        /\ UNCHANGED <<op, Inputs, replacement, result, zip1, zip2, path, tree>>

\* re.sub of call c has no match left and returns the string it built
Return(c) ==
    LET f  == calls[c]
        ms == MatchesOf(f)
    IN  /\ ~f.done
        /\ f.i > Len(ms)
        /\ calls' = [calls EXCEPT ![c] =
               [f EXCEPT !.done = TRUE,
                         !.returned = Str(sub_join(f.string, ms, f.outs, 1, 0))]]
        /\ UNCHANGED <<op, Inputs, replacement, result, replaced_cells,
                       zip1, zip2, path, tree>>

NextConcurrent ==
    \/ \E c \in CallIds : Callback(c)
    \/ \E c \in CallIds : Return(c)

SpecConcurrent == InitConcurrent /\ [][NextConcurrent]_vars

(* ------------------------- zip-utils: zipdiff.py ----------------------- *)

\* most entries of an archive
MaxEntries == 2
MaxNames == 3

\* bytes of an entry: the letter x, a line feed, and two bytes that are not
\* valid UTF-8
Bytes == {"x", "LF", "0xFF", "0xFE"}

FileContents == {<<"x">>, <<"x", "LF">>, <<"0xFF">>, <<"0xFE">>}

\* an archive is the list of its entries, in the order they were written;
\* it may hold two entries of one name
ZipEntries ==
    {[filename |-> "f", data |-> d] : d \in FileContents}
        \cup {[filename |-> "g", data |-> <<"x">>],
              [filename |-> "d/", data |-> <<>>]}

Archives == ListsUpTo(ZipEntries, MaxEntries)

\* ZipFile.namelist()
namelist(zip) == [k \in 1..Len(zip) |-> zip[k].filename]

\* set(list)
set(list) == {list[k] : k \in 1..Len(list)}

\* the names in either archive but not in both
zip_diff_symmetric(zip1_path, zip2_path) ==
    LET zip1_files == set(namelist(zip1_path))
        zip2_files == set(namelist(zip2_path))
    IN  (zip1_files \ zip2_files) \cup (zip2_files \ zip1_files)

zip_diff(zip1_path, zip2_path) ==
    LET zip1_files == set(namelist(zip1_path))
        zip2_files == set(namelist(zip2_path))
    IN  zip1_files \ zip2_files

\* ZipFile.open(file).read(): the data of the last entry of that name
read(zip, file) ==
    LET last == CHOOSE k \in 1..Len(zip) :
                    /\ zip[k].filename = file
                    /\ \A l \in (k + 1)..Len(zip) : zip[l].filename # file
    IN  zip[last].data

\* bytes.decode(errors="replace"): a byte that is not valid UTF-8 becomes
\* U+FFFD
decode(data) ==
    [k \in 1..Len(data) |->
        IF data[k] \in {"0xFF", "0xFE"} THEN "U+FFFD" ELSE data[k]]

\* str.splitlines(): the lines without their line feed; no empty last line
RECURSIVE splitlines_from(_, _, _)
splitlines_from(text, k, line) ==
    IF k > Len(text) THEN (IF line = <<>> THEN <<>> ELSE <<line>>)
    ELSE IF text[k] = "LF"
         THEN <<line>> \o splitlines_from(text, k + 1, <<>>)
         ELSE splitlines_from(text, k + 1, Append(line, text[k]))

splitlines(text) == splitlines_from(text, 1, <<>>)

\* f.read().decode(errors="replace").splitlines()
content(zip, file) == splitlines(decode(read(zip, file)))

\* "\n".join(difflib.unified_diff(content1, content2, fromfile, tofile)):
\* a text determined by the two line lists and the entry name
unified_diff(content1, content2, file) ==
    [fromfile |-> file, tofile |-> file, a |-> content1, b |-> content2]

\* the dictionary with a key for every common entry, equal or not
zip_content_diff_unfiltered(zip1_path, zip2_path) ==
    LET common_files == set(namelist(zip1_path)) \cap set(namelist(zip2_path))
    IN  [file \in common_files |->
            unified_diff(content(zip1_path, file), content(zip2_path, file), file)]

zip_content_diff(zip1_path, zip2_path) ==
    LET zip1_files   == set(namelist(zip1_path))
        zip2_files   == set(namelist(zip2_path))
        common_files == zip1_files \cap zip2_files
        differing    == {file \in common_files :
                            content(zip1_path, file) # content(zip2_path, file)}
    IN  [file \in differing |->
            unified_diff(content(zip1_path, file), content(zip2_path, file), file)]

\* the names zipdiff.py defines
zipdiff_module == {"zip_diff", "zip_content_diff"}

ImportFailed ==
    [raised |-> "ImportError", matched_before_raise |-> FALSE, returned |-> None]

\* from src.zipdiff import <name>, then <name>(zip1, zip2)
import_and_call(name, zip1_path, zip2_path) ==
    IF name \notin zipdiff_module THEN ImportFailed
    ELSE IF name = "zip_diff" THEN Returned(zip_diff(zip1_path, zip2_path))
    ELSE Returned(zip_content_diff(zip1_path, zip2_path))

InitZip ==
    /\ op = "init"
    /\ result = None
    /\ replacement = <<>> /\ calls = <<>> /\ replaced_cells = <<>>
    /\ args = <<>> /\ string = <<>> /\ pattern = None
    /\ ranges = <<>> /\ patterns = <<>> /\ count = 0
    /\ zip1 \in Archives
    /\ zip2 \in Archives
    /\ path = None /\ tree = None

\* the function under the name it is defined with
CallZipDiff ==
    /\ op = "init"
    /\ op' = "zip_diff"
    /\ result' = import_and_call("zip_diff", zip1, zip2)
    /\ UNCHANGED <<Inputs, replacement, Elsewhere>>

\* the function under the name the package, the CLI and the tests import
CallZipFilenamesDiff ==
    /\ op = "init"
    /\ op' = "zip_filenames_diff"
    /\ result' = import_and_call("zip_filenames_diff", zip1, zip2)
    /\ UNCHANGED <<Inputs, replacement, Elsewhere>>

CallZipContentDiff ==
    /\ op = "init"
    /\ op' = "zip_content_diff"
    /\ result' = import_and_call("zip_content_diff", zip1, zip2)
    /\ UNCHANGED <<Inputs, replacement, Elsewhere>>

NextZip ==
    \/ CallZipDiff
    \/ CallZipFilenamesDiff
    \/ CallZipContentDiff

SpecZip == InitZip /\ [][NextZip]_vars

(* ------------------------------ zipwalk.py ----------------------------- *)
\* A name or a path of zipwalk.py is the sequence of its pieces between the
\* '/' characters: 'A/B/c' is <<"A", "B", "c">>, the directory entry 'A/' is
\* <<"A", "">>, the empty string is <<"">> and "/" is <<"", "">>.  An
\* archive is the list of the names of its entries (zf.namelist(), and
\* zf.infolist() with is_dir() the test for a trailing '/').

\* the entry names archives are built from: directories nested two deep, a
\* directory inside a directory of the same base name, a directory 'A/B/'
\* beside a top-level 'B/', and a file 'X/f' whose directory has no entry
ZipNames ==
    << <<"A", "">>, <<"A", "A", "">>, <<"A", "B", "">>, <<"A", "B", "c">>,
       <<"A", "f">>, <<"B", "">>, <<"B", "g">>, <<"X", "f">>, <<"f">> >>

\* every string zip_walk sorts, in the order of str.__lt__ ('/' sorts before
\* the letters)
StringOrder ==
    << <<"A">>, <<"A", "A">>, <<"A", "B">>, <<"A", "B", "c">>, <<"A", "f">>,
       <<"B">>, <<"B", "g">>, <<"X", "f">>, <<"f">> >>

WalkArchives ==
    { SelectSeq(ZipNames, LAMBDA n : \E i \in S : ZipNames[i] = n) :
        S \in { T \in SUBSET DOMAIN ZipNames : Cardinality(T) <= MaxNames } }

\* the path arguments of zip_content: None, '', 'A', 'A/B', 'B', 'X', 'Z'
ContentPaths ==
    { None, <<"">>, <<"A">>, <<"A", "B">>, <<"B">>, <<"X">>, <<"Z">> }

\* f.endswith('/'), which is also ZipInfo.is_dir()
is_dir(f) == f[Len(f)] = ""

\* os.path.dirname(f): what precedes the last '/', "/" itself for a file of
\* the root directory of the file system
dirname(f) ==
    IF Len(f) = 1 THEN <<"">>
    ELSE IF \A i \in 1..(Len(f) - 1) : f[i] = "" THEN <<"", "">>
    ELSE SubSeq(f, 1, Len(f) - 1)

\* os.path.basename(f): what follows the last '/'
basename(f) == <<f[Len(f)]>>

\* Path(s).parts of a relative path: empty pieces and '.' pieces are dropped
Path_parts(s) == SelectSeq(s, LAMBDA x : x # "" /\ x # ".")

\* str(Path(s).parent)
Path_parent(s) ==
    IF Len(Path_parts(s)) <= 1 THEN <<".">>
    ELSE SubSeq(Path_parts(s), 1, Len(Path_parts(s)) - 1)

\* Path(s).name
Path_name(s) ==
    IF Path_parts(s) = <<>> THEN <<"">> ELSE <<Path_parts(s)[Len(Path_parts(s))]>>

\* sorted(S) of a set of strings
sorted(S) == SelectSeq(StringOrder, LAMBDA x : x \in S)

\* zip_content with every entry below path, not only the direct children
zip_content_recursive(zip, p) ==
    LET path0 == IF p = None THEN <<"">> ELSE p
        normalized_parent == IF path0 # <<"">> THEN path0 ELSE <<".">>
        below(f) ==
            \/ normalized_parent = <<".">>
            \/ /\ Len(Path_parts(f)) > Len(normalized_parent)
               /\ SubSeq(Path_parts(f), 1, Len(normalized_parent)) = normalized_parent
        all_names == { zip[i] : i \in { j \in DOMAIN zip : below(zip[j]) } }
    IN  [ dirnames  |-> { Path_name(f) : f \in { g \in all_names : is_dir(g) /\ g # path0 } },
          filenames |-> { Path_name(f) : f \in { g \in all_names : ~is_dir(g) /\ g # path0 } } ]

\* zip_content(zip_path, path): (dirnames, filenames)
zip_content(zip, p) ==
    LET path0 == IF p = None THEN <<"">> ELSE p
        normalized_parent == IF path0 # <<"">> THEN path0 ELSE <<".">>
        all_names ==
            { zip[i] : i \in { j \in DOMAIN zip : Path_parent(zip[j]) = normalized_parent } }
        all_dirnames == { f \in all_names : is_dir(f) }
        all_filenames == { f \in all_names : ~is_dir(f) }
    IN  [ dirnames  |-> { Path_name(f) : f \in { g \in all_dirnames : g # path0 } },
          filenames |-> { Path_name(f) : f \in { g \in all_filenames : g # path0 } } ]

\* one tuple yielded by zip_walk
Yielded(dirpath, dirnames, filenames) ==
    [ dirpath |-> dirpath, dirnames |-> dirnames, filenames |-> filenames ]

\* list(zip_walk(zip_path)): the tuples in the order they are yielded
zip_walk(zip) ==
    LET all_names == { zip[i] : i \in DOMAIN zip }
        all_dirnames == sorted({ dirname(f) : f \in { g \in all_names : is_dir(g) } })
        all_filenames == sorted({ f \in all_names : ~is_dir(f) })
        dirs == { all_dirnames[i] : i \in DOMAIN all_dirnames }
        files == { all_filenames[i] : i \in DOMAIN all_filenames }
        root == Yielded(<<"", "">>,
                        { d \in dirs : d # <<"", "">> },
                        { f \in files : dirname(f) = <<"">> })
        tuple(dirpath) ==
            Yielded(dirpath,
                    { basename(d) : d \in { e \in dirs : dirname(e) = dirpath } },
                    { basename(f) : f \in { g \in files : dirname(g) = dirpath } })
    IN  <<root>> \o
        [ i \in 1..Len(SelectSeq(all_dirnames, LAMBDA d : d # <<"", "">>)) |->
            tuple(SelectSeq(all_dirnames, LAMBDA d : d # <<"", "">>)[i]) ]

\* zip_tree's arguments: level (-1 is unlimited) and length_limit, which is
\* larger than the number of entries of every archive
Levels == {-1, 1}
length_limit == MaxNames + 2

\* the frame of one call inner(zip_path, path, prefix, level) when it starts
\* to run: contents is the set the for loop still has to go through
inner(zip, dirs_only, p, prefix, level) ==
    LET inner_dirs == zip_content(zip, p).dirnames
        inner_files == zip_content(zip, p).filenames
        contents ==
            { [current_path |-> d, is_dir |-> TRUE] : d \in inner_dirs }
            \cup { [current_path |-> f, is_dir |-> FALSE] :
                     f \in IF dirs_only THEN {} ELSE inner_files }
    IN  [ path |-> p, prefix |-> prefix, level |-> level,
          contents |-> IF level = 0 THEN {} ELSE contents ]

\* pointers[i] of the item the loop takes when `left` items are left
pointer(left) == IF left = 1 THEN "last" ELSE "tee"

\* the line yielded for an item of a frame
line(frame, item) ==
    [ prefix |-> frame.prefix, pointer |-> pointer(Cardinality(frame.contents)),
      name |-> item.current_path ]

\* the consumer of the generator receives a line: islice prints it and stops
\* after length_limit lines; the next(iterator, None) that follows reports
\* that the limit was reached
deliver(t, l) ==
    IF t.phase = "islice"
    THEN [ t EXCEPT !.lines = Append(@, l),
                    !.phase = IF Len(t.lines) + 1 = t.length_limit
                              THEN "probe" ELSE "islice" ]
    ELSE [ t EXCEPT !.cut = TRUE, !.phase = "done" ]

\* the top frame with one item taken out of contents
without(t, item) ==
    [ t EXCEPT !.stack[Len(t.stack)].contents = @ \ {item} ]

InitWalk ==
    /\ op = "init"
    /\ result = None
    /\ replacement = <<>> /\ calls = <<>> /\ replaced_cells = <<>>
    /\ args = <<>> /\ string = <<>> /\ pattern = None
    /\ ranges = <<>> /\ patterns = <<>> /\ count = 0
    /\ zip1 \in WalkArchives
    /\ zip2 = <<>>
    /\ path = None /\ tree = None

\* what zip_walk and zip_content leave alone
WalkFrame == <<Inputs, replacement, calls, replaced_cells, zip1, zip2>>

CallZipContent ==
    /\ op = "init"
    /\ op' = "zip_content"
    /\ \E p \in ContentPaths :
          /\ path' = p
          /\ result' = zip_content(zip1, p)
    /\ UNCHANGED <<WalkFrame, tree>>

CallZipWalk ==
    /\ op = "init"
    /\ op' = "zip_walk"
    /\ result' = [ yielded |-> zip_walk(zip1) ]
    /\ UNCHANGED <<WalkFrame, path, tree>>

\* zip_tree up to the first next() on the generator (lines 95-124)
CallZipTree ==
    /\ op = "init"
    /\ op' = "zip_tree"
    /\ \E level \in Levels, dirs_only \in BOOLEAN :
          tree' = [ level |-> level, dirs_only |-> dirs_only,
                    length_limit |-> length_limit,
                    stack |-> << inner(zip1, dirs_only, None, <<>>, level) >>,
                    pending |-> <<>>, lines |-> <<>>,
                    file_count |-> 0, dir_count |-> 0,
                    phase |-> "islice", cut |-> FALSE ]
    /\ UNCHANGED <<WalkFrame, path, result>>

\* the generator runs while the islice loop or the next() after it waits
Running ==
    /\ op = "zip_tree"
    /\ tree.phase \in {"islice", "probe"}

\* the loop takes a directory: the line is yielded (line 114), the count
\* and the recursive call wait for the generator to be resumed
YieldDirectory ==
    /\ Running
    /\ tree.pending = <<>>
    /\ tree.stack # <<>>
    /\ \E item \in tree.stack[Len(tree.stack)].contents :
          /\ item.is_dir
          /\ tree' = deliver([ without(tree, item) EXCEPT
                                  !.pending = << [ frame |-> tree.stack[Len(tree.stack)],
                                                   item |-> item ] >> ],
                             line(tree.stack[Len(tree.stack)], item))
    /\ UNCHANGED <<WalkFrame, path, result, op>>

\* the loop takes a file: it is counted, then its line is yielded
\* (lines 118-120)
YieldFile ==
    /\ Running
    /\ tree.pending = <<>>
    /\ tree.stack # <<>>
    /\ \E item \in tree.stack[Len(tree.stack)].contents :
          /\ ~item.is_dir
          /\ ~tree.dirs_only
          /\ tree' = deliver([ without(tree, item) EXCEPT !.file_count = @ + 1 ],
                             line(tree.stack[Len(tree.stack)], item))
    /\ UNCHANGED <<WalkFrame, path, result, op>>

\* resumed after the line of a directory: the directory is counted and
\* inner is called with its base name (lines 115-117)
Descend ==
    /\ Running
    /\ tree.pending # <<>>
    /\ LET frame == tree.pending[1].frame
           item == tree.pending[1].item
           extension == IF pointer(Cardinality(frame.contents)) = "tee"
                        THEN "branch" ELSE "space"
       IN  tree' = [ tree EXCEPT
                       !.dir_count = @ + 1,
                       !.pending = <<>>,
                       !.stack = Append(@, inner(zip1, tree.dirs_only,
                                                 item.current_path,
                                                 Append(frame.prefix, extension),
                                                 frame.level - 1)) ]
    /\ UNCHANGED <<WalkFrame, path, result, op>>

\* the loop of the innermost call is over: the call returns to its caller
Return_inner ==
    /\ Running
    /\ tree.pending = <<>>
    /\ tree.stack # <<>>
    /\ tree.stack[Len(tree.stack)].contents = {}
    /\ tree' = [ tree EXCEPT !.stack = SubSeq(@, 1, Len(@) - 1) ]
    /\ UNCHANGED <<WalkFrame, path, result, op>>

\* the outermost call has returned: the generator is exhausted, islice
\* stops and next(iterator, None) is None
Exhausted ==
    /\ Running
    /\ tree.pending = <<>>
    /\ tree.stack = <<>>
    /\ tree' = [ tree EXCEPT !.phase = "done" ]
    /\ UNCHANGED <<WalkFrame, path, result, op>>

\* the summary line (line 132)
PrintSummary ==
    /\ op = "zip_tree"
    /\ tree.phase = "done"
    /\ op' = "zip_tree_returned"
    /\ result' = [ lines |-> tree.lines, cut |-> tree.cut,
                   dir_count |-> tree.dir_count, file_count |-> tree.file_count ]
    /\ UNCHANGED <<WalkFrame, path, tree>>

NextWalk ==
    \/ CallZipContent
    \/ CallZipWalk
    \/ CallZipTree
    \/ YieldDirectory
    \/ YieldFile
    \/ Descend
    \/ Return_inner
    \/ Exhausted
    \/ PrintSummary

SpecWalk == InitWalk /\ [][NextWalk]_vars

(* ------------------------------ replace: properties -------------------- *)

\* the text of the subject between match i - 1 and match i of the pattern
\* (before the first match, after the last one)
GapBefore(i) ==
    Slice(string,
          IF i = 1 THEN 0 ELSE AllMatches[i - 1].span[2],
          IF i > Len(AllMatches) THEN Len(string) ELSE AllMatches[i].span[1])

\* the subject with the matches whose index is in R replaced by replacement
\* and everything else copied
Rewritten(R) ==
    Flatten([i \in 1..Len(AllMatches) |->
                GapBefore(i) \o (IF i \in R THEN replacement
                                 ELSE AllMatches[i].group)])
        \o GapBefore(Len(AllMatches) + 1)

\* indices of the matches overlapping some range, and of those overlapping none
InRanges == {i \in 1..Len(AllMatches) : OverlapsAny(AllMatches[i], ranges)}

OutOfRanges == {i \in 1..Len(AllMatches) : ~OverlapsAny(AllMatches[i], ranges)}

\* the first count members of Q, all of them when count is 0
WithinBudget(Q) ==
    IF count = 0 THEN Q
    ELSE {i \in Q : Cardinality({j \in Q : j <= i}) <= count}

\* C11: with count = 0 replace_within_ranges returns the subject with every
\* match of the pattern that overlaps at least one included range replaced
\* by the replacement string; every other match and all text between
\* matches are copied unchanged, in order.
C11_ReplaceWithinRangesFrame ==
    (op = "replace_within_ranges" /\ count = 0) =>
        result = Str(Rewritten(InRanges))

\* a match overlapping the second range only is replaced, another match is
\* copied, and text outside the matches is kept
C11_Witness ==
    /\ op = "replace_within_ranges" /\ count = 0 /\ Len(ranges) = 2
    /\ \E i \in InRanges :
          /\ ~SpanOverlaps(AllMatches[i].span, ranges[1])
          /\ AllMatches[i].group # replacement
    /\ \E i \in OutOfRanges : AllMatches[i].group # <<>>
    /\ \E i \in 1..(Len(AllMatches) + 1) : GapBefore(i) # <<>>
    /\ result = Str(Rewritten(InRanges))
    /\ result # Str(string)

\* C12: replace_with_excluded_ranges with count = k > 0 replaces exactly the
\* first min(k, q) matches that overlap no excluded range (q is their
\* number), and all q of them with count = 0; a match overlapping an
\* excluded range consumes no budget, and once the budget is reached the
\* remaining matches pass through unchanged.
C12_ExcludedReplaceBudget ==
    (op = "replace_with_excluded_ranges") =>
        result = Str(Rewritten(WithinBudget(OutOfRanges)))

\* an excluded match comes first, the budget is spent on the match after it
\* and a later match outside the excluded ranges passes through
C12_Witness ==
    /\ op = "replace_with_excluded_ranges" /\ count = 1
    /\ replacement # <<>>
    /\ \E i \in InRanges : \E j, k \in OutOfRanges :
          /\ i < j /\ j < k
          /\ AllMatches[j].group # replacement
          /\ AllMatches[k].group # replacement
          /\ WithinBudget(OutOfRanges) = {j}
    /\ result = Str(Rewritten(WithinBudget(OutOfRanges)))
    /\ result # Str(string)

\* C13: replace_within_ranges honors the budget the same way: with
\* count = k > 0 it replaces exactly the first min(k, q) matches that overlap
\* an included range; matches overlapping no included range consume no
\* budget.
C13_WithinReplaceBudget ==
    (op = "replace_within_ranges") =>
        result = Str(Rewritten(WithinBudget(InRanges)))

\* C14 (as stated): when the replacement contains no match of the pattern, a
\* second pass of replace_within_ranges with the same ranges changes nothing.
C14_IdempotentWhenReplacementHasNoMatch ==
    (/\ op = "replace_within_ranges" /\ count = 0
     /\ finditer(pattern, replacement) = <<>>) =>
        replace_within_ranges(result.str, pattern, replacement, ranges, 0)
            = result.str

\* the matches of the pattern in the output of the first pass that overlap
\* an included range
QualifyingInOutput ==
    LET Kept(m) == OverlapsAny(m, ranges)
    IN  SelectSeq(finditer(pattern, result.str), Kept)

\* C14 (amended): a second pass of replace_within_ranges with the same
\* ranges changes nothing when the output of the first pass contains no
\* match of the pattern overlapping an included range.  (The ranges are
\* offsets into the string being processed, so a replacement of another
\* length moves later matches into or out of them.)
C14_IdempotentWhenOutputHasNoQualifyingMatch ==
    (/\ op = "replace_within_ranges" /\ count = 0
     /\ QualifyingInOutput = <<>>) =>
        replace_within_ranges(result.str, pattern, replacement, ranges, 0)
            = result.str

\* the first pass replaced a match, and its output still holds matches of
\* the pattern and text around them, none overlapping an included range
C14_Witness ==
    /\ op = "replace_within_ranges" /\ count = 0
    /\ result # Str(string)
    /\ QualifyingInOutput = <<>>
    /\ \E m \in {finditer(pattern, result.str)[k] :
                    k \in 1..Len(finditer(pattern, result.str))} :
          m.group # <<>> /\ m.span[2] < Len(result.str)

(* ------------------------------ errors: properties --------------------- *)

SomePatternInvalid ==
    ~compiles(pattern) \/ \E i \in 1..Len(patterns) : ~compiles(patterns[i])

\* C15: for every operation, if the target pattern or any entry of the
\* pattern list is syntactically invalid, the call raises a pattern-syntax
\* error before any matching is performed and returns no result.
C15_InvalidPatternRaisesFirst ==
    (op # "init" /\ SomePatternInvalid) =>
        /\ result.raised = "re.error"
        /\ ~result.matched_before_raise
        /\ result.returned = None

(* ------------------------ unusual ranges: properties ------------------- *)

Malformed(r) == r[1] > r[2]

\* C16: a range with start > end is rejected by no operation and never
\* overlaps anything: _do_ranges_overlap(s1, e1, s2, e2) is false for every
\* match span (s1, e1) when s2 > e2, so a list of such ranges includes no
\* match and excludes none.
C16_MalformedRangeNeverOverlaps ==
    /\ (/\ op = "_do_ranges_overlap"
        /\ 0 <= args[1] /\ args[1] <= args[2]
        /\ args[3] > args[4]) => result = FALSE
    /\ (/\ op = "find_within_ranges"
        /\ \A j \in 1..Len(ranges) : Malformed(ranges[j])) => result = <<>>
    /\ (/\ op = "find_with_excluded_ranges" /\ count = 0
        /\ \A j \in 1..Len(ranges) : Malformed(ranges[j])) =>
            Len(result) = Len(AllMatches)

OutOfBounds(r) == r[1] >= Len(string)

\* C17: a range with start >= len(subject) raises no error and overlaps no
\* match of the subject, not even a zero-length match at its very end;
\* find_within_ranges with only such ranges returns nothing and
\* find_with_excluded_ranges with only such ranges returns every match.
C17_OutOfBoundsRangeNeverOverlaps ==
    /\ (/\ op = "_do_ranges_overlap"
        /\ 0 <= args[1] /\ args[1] <= args[2] /\ args[2] <= args[3]) =>
            result = FALSE
    /\ (/\ op = "find_within_ranges"
        /\ \A j \in 1..Len(ranges) : OutOfBounds(ranges[j])) => result = <<>>
    /\ (/\ op = "find_with_excluded_ranges" /\ count = 0 /\ ranges # <<>>
        /\ \A j \in 1..Len(ranges) : OutOfBounds(ranges[j])) =>
            result = AllMatches

(* --------------------------- concurrency: properties ------------------- *)

\* what call c returns when it runs alone
Alone(f) ==
    Str(replace_with_excluded_ranges(f.string, f.pattern, f.replacement,
                                     f.excluded_ranges, f.count))

SameArguments(f, g) ==
    /\ f.string = g.string /\ f.pattern = g.pattern
    /\ f.replacement = g.replacement
    /\ f.excluded_ranges = g.excluded_ranges /\ f.count = g.count

\* C18: when two calls of replace_with_excluded_ranges run concurrently with
\* their callbacks interleaved in any order, each returns the string it
\* returns when run alone (the counter replaced belongs to one call), and
\* two calls with equal arguments return equal results.
C18_ConcurrentCallsAreIndependent ==
    /\ \A c \in CallIds : calls[c].done => calls[c].returned = Alone(calls[c])
    /\ \A c, d \in CallIds :
          (calls[c].done /\ calls[d].done /\ SameArguments(calls[c], calls[d]))
              => calls[c].returned = calls[d].returned

\* both calls have returned after interleaved callbacks and each replaced
\* a match; one of them spent its budget and left a later match outside the
\* excluded range unreplaced, the other had another budget
C18_Witness ==
    /\ op = "concurrent"
    /\ \A c \in CallIds :
          /\ calls[c].done /\ calls[c].overlapped
          /\ calls[c].returned # Str(calls[c].string)
    /\ \E c \in CallIds :
          /\ replaced_cells[c] = calls[c].count
          /\ calls[c].outs[Len(calls[c].outs)] = <<"a">>
    /\ calls[1].count # calls[2].count

(* ------------------------------ zipdiff: properties -------------------- *)

EntryNames == {e.filename : e \in ZipEntries}

Has(zip, name) == \E k \in 1..Len(zip) : zip[k].filename = name

\* C19: the file-name diff of two archives (zip_diff, imported by the tests
\* and the CLI as zip_filenames_diff) returns exactly the set of entry names
\* present in the first archive and absent from the second; so the diff of
\* an archive with itself or of two empty archives is empty, and with the
\* arguments swapped it is the set of names of the second archive only.
C19_FilenamesDiffIsSetDifference ==
    (op \in {"zip_diff", "zip_filenames_diff"}) =>
        /\ result.raised = ""
        /\ \A n \in EntryNames :
              n \in result.returned <=> (Has(zip1, n) /\ ~Has(zip2, n))
        /\ result.returned \subseteq EntryNames
        /\ (zip1 = zip2 => result.returned = {})
        /\ import_and_call(op, zip2, zip1).returned
              = {n \in EntryNames : Has(zip2, n) /\ ~Has(zip1, n)}

\* C20: the keys of the dictionary zip_content_diff returns are exactly the
\* entry names present in both archives whose contents, compared as lists of
\* decoded lines, differ; a name in one archive only is never a key, nor is
\* one with equal content in both; an archive compared with itself, or two
\* empty archives, give an empty dictionary.
C20_ContentDiffKeys ==
    (op = "zip_content_diff") =>
        /\ result.raised = ""
        /\ \A n \in EntryNames :
              n \in DOMAIN result.returned <=>
                  /\ Has(zip1, n) /\ Has(zip2, n)
                  /\ content(zip1, n) # content(zip2, n)
        /\ DOMAIN result.returned \subseteq EntryNames
        /\ \A n \in DOMAIN result.returned : read(zip1, n) # read(zip2, n)
        /\ (zip1 = zip2 => DOMAIN result.returned = {})

\* an entry of both archives whose lines differ is a key, with the two line
\* lists in its value; an entry of the first archive only is not a key
C20_Witness ==
    /\ op = "zip_content_diff"
    /\ "f" \in DOMAIN result.returned
    /\ result.returned["f"].a # result.returned["f"].b
    /\ \E n \in EntryNames :
          Has(zip1, n) /\ ~Has(zip2, n) /\ n \notin DOMAIN result.returned

(* ------------------------- zipwalk.py properties ----------------------- *)
\* the pieces of a name or path that name something: 'A/B/' and 'A/B' are
\* <<"A", "B">>, the root ("/", '' or None) is <<>>
Pieces(s) == IF s = None THEN <<>> ELSE SelectSeq(s, LAMBDA x : x # "")

\* the base name of an entry and the directory that contains it
Base(n) == <<Pieces(n)[Len(Pieces(n))]>>
Container(n) == SubSeq(Pieces(n), 1, Len(Pieces(n)) - 1)

\* the directory entries (names ending in '/') and the file entries
DirectoryEntries(zip) == { zip[i] : i \in { j \in DOMAIN zip : zip[j][Len(zip[j])] = "" } }
FileEntries(zip) == { zip[i] : i \in { j \in DOMAIN zip : zip[j][Len(zip[j])] # "" } }

\* the base names of the entries of a set directly inside a directory
DirectlyInside(entries, dir) ==
    { Base(n) : n \in { e \in entries : Container(e) = Pieces(dir) } }

\* every directory that holds an entry has an entry of its own, as in the
\* archives the tests build
EveryDirectoryHasAnEntry ==
    \A i \in DOMAIN zip1 :
        \/ Container(zip1[i]) = <<>>
        \/ \E d \in DirectoryEntries(zip1) : Pieces(d) = Container(zip1[i])

\* C21: zip_walk yields the root tuple with dirpath '/' first and then one
\* tuple per directory of the archive; in every yielded tuple, the root
\* tuple included and at any depth of nesting, dirnames is exactly the set
\* of names of the directories directly inside dirpath and filenames exactly
\* the set of names of the files directly inside dirpath.  Stated for the
\* archives in which every directory has an entry of its own.
C21_WalkListsDirectChildren ==
    (op = "zip_walk" /\ EveryDirectoryHasAnEntry) =>
        LET y == result.yielded
        IN  /\ y[1].dirpath = <<"", "">>
            /\ Len(y) = 1 + Cardinality(DirectoryEntries(zip1))
            /\ { Pieces(y[i].dirpath) : i \in 2..Len(y) }
                  = { Pieces(d) : d \in DirectoryEntries(zip1) }
            /\ \A i \in DOMAIN y :
                  /\ y[i].dirnames
                        = DirectlyInside(DirectoryEntries(zip1), y[i].dirpath)
                  /\ y[i].filenames
                        = DirectlyInside(FileEntries(zip1), y[i].dirpath)

\* C22: zip_tree with level = -1, dirs_only = False and fewer entries than
\* length_limit prints one line per archive entry and ends with a summary
\* whose directory count is the number of directory entries and whose file
\* count is the number of file entries, at any depth of nesting.  Stated
\* for the archives in which every directory has an entry of its own.
C22_TreeCountsEveryEntry ==
    ( /\ op = "zip_tree_returned"
      /\ EveryDirectoryHasAnEntry
      /\ tree.level = -1 /\ ~tree.dirs_only
      /\ Len(zip1) < tree.length_limit ) =>
        /\ Len(result.lines) = Len(zip1)
        /\ result.dir_count = Cardinality(DirectoryEntries(zip1))
        /\ result.file_count = Cardinality(FileEntries(zip1))

\* C23: zip_content(zip, path) returns (dirnames, filenames) where dirnames
\* are the base names of exactly the directory entries and filenames the
\* base names of exactly the file entries whose parent directory is path
\* (the archive root when path is None); for an empty directory or a path
\* that names no directory in the archive both sets are empty.
C23_ContentListsDirectChildren ==
    (op = "zip_content") =>
        /\ result.dirnames = DirectlyInside(DirectoryEntries(zip1), path)
        /\ result.filenames = DirectlyInside(FileEntries(zip1), path)
        /\ ( (\A i \in DOMAIN zip1 : Container(zip1[i]) # Pieces(path)) =>
                 result.dirnames = {} /\ result.filenames = {} )

\* zip_content('A') on an archive where A holds a directory, a file or both
\* and an entry lies deeper below A: the deeper entry is not listed
C23_Witness ==
    /\ op = "zip_content"
    /\ path = <<"A">>
    /\ result.dirnames \cup result.filenames # {}
    /\ result.dirnames = { <<"B">> }
    /\ \E i \in DOMAIN zip1 :
          /\ Len(Pieces(zip1[i])) = 3
          /\ Base(zip1[i]) \notin result.dirnames \cup result.filenames

\* C26: every file entry of the archive appears in the filenames of exactly
\* one yielded tuple of zip_walk, the tuple whose dirpath is the file's
\* parent directory, also when that directory has no entry of its own.
C26_WalkCoversEveryFile ==
    (op = "zip_walk") =>
        LET y == result.yielded
        IN  /\ \A f \in FileEntries(zip1) :
                  Cardinality({ i \in DOMAIN y :
                                  /\ Pieces(y[i].dirpath) = Container(f)
                                  /\ Base(f) \in y[i].filenames }) = 1
            /\ \A i \in DOMAIN y :
                  y[i].filenames \subseteq DirectlyInside(FileEntries(zip1), y[i].dirpath)

\* C27: with level = -1 the traversal of zip_tree ends on its own, after
\* visiting each directory at most once: it is never length_limit that ends
\* it, the calls of inner are never nested deeper than the directories of
\* the archive allow and no more directories are counted than the archive
\* has, also when a directory holds a subdirectory of the same base name.
C27_TreeTerminatesUnaided ==
    ( /\ op \in {"zip_tree", "zip_tree_returned"}
      /\ tree.level = -1
      /\ Len(zip1) < tree.length_limit ) =>
        /\ ~tree.cut
        /\ tree.phase # "probe"
        /\ tree.dir_count <= Cardinality(DirectoryEntries(zip1))
        /\ Len(tree.stack) <= 1 + Cardinality(DirectoryEntries(zip1))

(* --------------------- find and replace side by side ------------------- *)
\* a replacement that is the text of no match: the callback returned it for
\* exactly the matches it substitutes
Marker == <<"#">>

\* indices, among all matches of the pattern, of the matches the callback of
\* replace_within_ranges substitutes
SubstitutedWithin ==
    LET ms == sub_matches(pattern, string, count)
    IN  { i \in 1..Len(ms) :
            within_replacement_function(ms[i], Marker, ranges, 1) = Marker }

\* the same for replace_with_excluded_ranges
SubstitutedOutside ==
    LET outs == excluded_replace_loop(AllMatches, 1, Marker, ranges, count, 0, <<>>)
    IN  { i \in 1..Len(AllMatches) : outs[i] = Marker }

\* indices of the matches whose spans find_within_ranges returns
FoundWithin ==
    LET found == find_within_ranges(string, pattern, ranges, count)
    IN  { i \in 1..Len(AllMatches) :
            \E k \in 1..Len(found) : found[k].span = AllMatches[i].span }

\* the texts of the matches of a set of indices, in match order
RECURSIVE TextsOf(_, _)
TextsOf(Q, i) ==
    IF i > Len(AllMatches) THEN <<>>
    ELSE (IF i \in Q THEN <<Str(AllMatches[i].group)>> ELSE <<>>)
            \o TextsOf(Q, i + 1)

\* C24: find and replace select the same matches, with count = 0 and with
\* every count = k > 0: the matches replace_within_ranges substitutes are
\* those whose spans find_within_ranges returns, the matches
\* replace_with_excluded_ranges substitutes are those find_with_excluded_ranges
\* keeps, and the string returned is the subject with exactly these rewritten.
C24_FindAndReplaceSelectTheSame ==
    /\ (op = "replace_within_ranges") =>
          /\ SubstitutedWithin = FoundWithin
          /\ Len(find_within_ranges(string, pattern, ranges, count))
                = Cardinality(FoundWithin)
          /\ result = Str(Rewritten(FoundWithin))
    /\ (op = "replace_with_excluded_ranges") =>
          /\ find_with_excluded_ranges(string, pattern, ranges, count)
                = TextsOf(SubstitutedOutside, 1)
          /\ result = Str(Rewritten(SubstitutedOutside))

(* ------------------------- the budget as a prefix ---------------------- *)
FindOperations ==
    { "find_within_ranges", "find_with_excluded_ranges",
      "find_within_patterns", "find_with_excluded_patterns" }

\* what the operation of this call returns for the same arguments with the
\* budget k
WithBudget(k) ==
    CASE op = "find_within_ranges" ->
            find_within_ranges(string, pattern, ranges, k)
      [] op = "find_with_excluded_ranges" ->
            find_with_excluded_ranges(string, pattern, ranges, k)
      [] op = "find_within_patterns" ->
            find_within_patterns(string, pattern, patterns, k)
      [] op = "find_with_excluded_patterns" ->
            find_with_excluded_patterns(string, pattern, patterns, k)

\* C25: prefix monotonicity of the budget: for each of the four find
\* operations and every k >= 1 the result with count = k is a prefix of the
\* result with count = k + 1 and of the result with count = 0; raising the
\* budget only appends results and never changes or reorders earlier ones.
C25_BudgetPrefixMonotone ==
    (op \in FindOperations /\ count >= 1) =>
        LET raised == WithBudget(count + 1)
            unbounded == WithBudget(0)
        IN  /\ Len(result) <= Len(raised)
            /\ Len(raised) <= Len(unbounded)
            /\ result = Prefix(raised, Len(result))
            /\ result = Prefix(unbounded, Len(result))
            /\ raised = Prefix(unbounded, Len(raised))

\* the budget is reached, one more unit of budget appends one match and the
\* unbounded result is longer still
C25_Witness ==
    /\ op \in FindOperations /\ count >= 1
    /\ Len(result) = count
    /\ Len(WithBudget(count + 1)) = count + 1
    /\ Len(WithBudget(0)) > count + 1
    /\ WithBudget(count + 1)[count + 1] # WithBudget(count + 1)[1]

====
